---- MODULE Spec2Model ----
(***************************************************************************)
(* Model of the team-collaboration WebSocket gateway                       *)
(* (server.js, socketHandlers.js, auth.js): per-address admission control, *)
(* the per-connection authentication life cycle with its grace timers,     *)
(* the presence registry and the room / team broadcast router.             *)
(*                                                                         *)
(* Execution is single threaded: every action below is one event-loop      *)
(* task, i.e. the code of one handler between two real suspension points.  *)
(* `await verifyToken(...)` is a micro-task boundary only (jwt.verify is    *)
(* synchronous), so it does not split a handler; the awaits on the         *)
(* system-of-record (fetchUserTeams / fetchUserTasks / getProjectTeamId)   *)
(* are real suspension points and split the handler into two actions.      *)
(***************************************************************************)
EXTENDS Integers, FiniteSets, Sequences, TLC

\* ------------------------------------------------------------------ bounds
MaxSockets == 2      \* connections accepted during one run
MaxTicks   == 2      \* number of clock advances during one run
StartTime  == 200000 \* Date.now() when the first event arrives (ms)

\* ------------------------------------------------------- program constants
MAX_CONNECTIONS_PER_IP        == 10
MAX_CONNECTIONS_LOCALHOST     == 20
CONNECTION_WINDOW             == 60000
CONNECTION_COOLDOWN           == 2000
CONNECTION_COOLDOWN_LOCALHOST == 500
EXPIRED_TOKEN_COOLDOWN        == 1000
MAX_EXPIRED_ATTEMPTS          == 10
MAX_EXPIRED_ATTEMPTS_LOCALHOST == 50
REAUTH_GRACE                  == 5000
MISSING_TOKEN_GRACE           == 10000

\* ------------------------------------------------------------ input domains
LocalIP  == "127.0.0.1"
RemoteIP == "10.0.0.5"
OtherIP  == "10.0.0.6"
IPs      == {LocalIP, RemoteIP, OtherIP}

Users    == {"u1", "u2", "u3"}
NoUser   == "none"
Teams    == {"t1", "t2"}
NoTeam   == "none"

\* project ids as clients send them: the JSON string '123' and the JSON number 7
Projects  == {[num |-> FALSE, txt |-> "123"], [num |-> TRUE, txt |-> "7"]}
NoProject == [num |-> FALSE, txt |-> ""]

\* role claim carried by the tokens of each user (decoded.role)
RoleOf(u) == IF u = "u3" THEN "admin" ELSE "member"

\* credentials a client can present: kind is what jwt.verify makes of it
NoToken        == [kind |-> "none",      user |-> NoUser]
ExpiredToken   == [kind |-> "expired",   user |-> NoUser]
MalformedToken == [kind |-> "malformed", user |-> NoUser]
PrematureToken == [kind |-> "premature", user |-> NoUser]
ValidToken(u)  == [kind |-> "valid",     user |-> u]

\* amounts by which the wall clock advances between two events
Steps == {500, 5000, 60000, 125000}

\* ------------------------------------------------------------- Map helpers
MapHas(m, k)    == k \in DOMAIN m
MapSet(m, k, v) == [x \in DOMAIN m \cup {k} |-> IF x = k THEN v ELSE m[x]]
MapDelete(m, k) == [x \in DOMAIN m \ {k} |-> m[x]]
EmptyMap        == [x \in {} |-> {}]

Max(a, b) == IF a >= b THEN a ELSE b

\* ------------------------------------------------------------ Token Verifier
\* message of the Error verifyToken throws (auth.js), "" when it resolves
VerifyMessage(tok) ==
  CASE tok.kind = "valid"     -> ""
    [] tok.kind = "expired"   -> "Token has expired"
    [] tok.kind = "malformed" -> "Invalid token format"
    [] OTHER                  -> "Token not active yet"

IncludesExpired_AnyFailure(msg) == msg # ""

IncludesExpired_CaseSlip(msg) == msg = "Token Has Expired"

\* String.prototype.includes is case sensitive
IncludesExpired(msg) == msg = "Token has expired"
IncludesInvalid(msg) == FALSE  \* no message contains lower-case 'invalid' or 'JsonWebTokenError'

\* ------------------------------------------------------ Admission Controller
IsLocalhost_Never(ip) == FALSE

IsLocalhost_Inverted(ip) == ip \notin {"127.0.0.1", "::1", "::ffff:127.0.0.1", "localhost"}

IsLocalhost(ip) == ip \in {"127.0.0.1", "::1", "::ffff:127.0.0.1", "localhost"}

NewAttempts(ip) ==
  [count |-> 0, lastAttempt |-> 0, isLocalhost |-> IsLocalhost(ip), expiredTokenAttempts |-> 0]

\* server.js:44: the window has passed since the last stamped attempt
WindowPassed(t, lastAttempt) == t - lastAttempt > CONNECTION_WINDOW

CooldownActive_Inclusive(t, lastAttempt, cooldown) == t - lastAttempt <= cooldown

\* server.js:62 and 81: the cooldown since the last stamped attempt is running
CooldownActive(t, lastAttempt, cooldown) == t - lastAttempt < cooldown

\* checkConnectionRateLimit(ip, isExpiredToken) evaluated at time t on the map m.
\* Returns the verdict and the map afterwards.  `attempts` is the object stored
\* in the Map when the address has one, so every assignment made before a
\* `return false` is visible in the Map; a fresh object is stored only by set().
checkConnectionRateLimit(m, ip, isExpiredToken, t) ==
  LET isLocalhost == IsLocalhost(ip)
      a0 == IF MapHas(m, ip) THEN m[ip] ELSE NewAttempts(ip)
      a1 == [a0 EXCEPT !.isLocalhost = isLocalhost]
      a2 == IF WindowPassed(t, a1.lastAttempt)
              THEN [a1 EXCEPT !.count = 0, !.expiredTokenAttempts = 0]
              ELSE a1
      InPlace(a) == IF MapHas(m, ip) THEN MapSet(m, ip, a) ELSE m
  IN IF isExpiredToken
       THEN LET a3 == [a2 EXCEPT !.expiredTokenAttempts = @ + 1]
                maxExpiredAttempts == IF isLocalhost THEN MAX_EXPIRED_ATTEMPTS_LOCALHOST
                                                     ELSE MAX_EXPIRED_ATTEMPTS
                expiredCooldown == IF isLocalhost THEN EXPIRED_TOKEN_COOLDOWN
                                                  ELSE EXPIRED_TOKEN_COOLDOWN * 2
            IN IF a3.expiredTokenAttempts > maxExpiredAttempts
                 THEN [ok |-> FALSE, map |-> InPlace(a3)]
               ELSE IF CooldownActive(t, a3.lastAttempt, expiredCooldown)
                 THEN [ok |-> FALSE, map |-> InPlace(a3)]
               ELSE [ok |-> TRUE, map |-> MapSet(m, ip, [a3 EXCEPT !.lastAttempt = t])]
       ELSE LET maxConnections == IF isLocalhost THEN MAX_CONNECTIONS_LOCALHOST
                                                 ELSE MAX_CONNECTIONS_PER_IP
                cooldown == IF isLocalhost THEN CONNECTION_COOLDOWN_LOCALHOST
                                           ELSE CONNECTION_COOLDOWN
            IN IF a2.count >= maxConnections
                 THEN [ok |-> FALSE, map |-> InPlace(a2)]
               ELSE IF CooldownActive(t, a2.lastAttempt, cooldown)
                 THEN [ok |-> FALSE, map |-> InPlace(a2)]
               ELSE [ok |-> TRUE,
                     map |-> MapSet(m, ip, [a2 EXCEPT !.count = @ + 1, !.lastAttempt = t])]

\* ------------------------------------------------------------------- state
VARIABLES
  now,                \* Date.now()
  ticks,              \* clock advances so far (bounds the run)
  connectionAttempts, \* server.js:25  IP -> {count, lastAttempt, isLocalhost, expiredTokenAttempts}
  activeConnections,  \* server.js:26  IP -> Set of socket ids
  sockets,            \* the Socket objects, in order of acceptance (socket id = index)
  activeRooms,        \* socketHandlers.js:5  projectId -> Set of userIds
  userSockets,        \* socketHandlers.js:6  userId -> Set of socketIds
  socketUsers,        \* socketHandlers.js:7  socketId -> userInfo
  calls,              \* event handlers suspended in a system-of-record call
  windowStart,        \* history: per IP, the time its counters last restarted from zero
  delivered           \* the copies of the latest domain broadcast, per socket

vars == <<now, ticks, connectionAttempts, activeConnections, sockets,
          activeRooms, userSockets, socketUsers, calls, windowStart, delivered>>

SocketIds == 1..Len(sockets)

\* a Socket as accepted by the transport, before the connection handler runs
NewSocket(ip, tok, t) ==
  [ip |-> ip, token |-> tok, connectedAt |-> t,
   connected |-> TRUE,          \* the transport session is up
   pc |-> "accept",             \* accept | fetch | ready | rejected
   authenticated |-> FALSE, userId |-> NoUser, userRole |-> "none",
   isExpiredTokenAttempt |-> FALSE,
   rooms |-> {},                \* socket.rooms: project and team rooms
   timerPending |-> FALSE, timerAt |-> 0,
   closedBy |-> "",             \* who ended the session, and when
   closedAt |-> 0,
   received |-> {},             \* notices the client has been sent
   refused |-> {},              \* events whose handler found it unauthenticated
   resolved |-> {},             \* team ids its latest authentication or refresh went on with
   roomMembers |-> {}]          \* members listed by the latest room_members reply

\* a handler takes its `if (!socket.authenticated)` branch for event ev
Refuse(sock, ev) == [sock EXCEPT !.refused = @ \cup {ev}]

\* socket.emit(...): reaches the client only while the session is up
Emit(sock, notice) ==
  IF sock.connected THEN [sock EXCEPT !.received = @ \cup {notice}] ELSE sock

\* socket.disconnect(true) issued by the server before any 'disconnect'
\* listener is registered: the session ends and no handler runs
CloseUnhandled(sock, why) ==
  IF sock.connected
    THEN [sock EXCEPT !.connected = FALSE, !.closedBy = why, !.closedAt = now,
                      !.rooms = {}]
    ELSE sock

TeamRoom(teamId)       == <<"team", teamId>>
ProjectRoom(projectId) == <<"project", projectId.txt>>
\* room.replace('project_', ''): always a string
ProjectIdOfRoom(room)  == [num |-> FALSE, txt |-> room[2]]

Notice(ev, code, action) == <<ev, code, action>>

WindowRestarts(m, ip, t) ==
  WindowPassed(t, IF MapHas(m, ip) THEN m[ip].lastAttempt ELSE 0)

GraceDeadline_Swapped(tok, t) ==
  t + (IF tok.kind = "none" THEN REAUTH_GRACE ELSE MISSING_TOKEN_GRACE)

\* when the grace timer armed at time t for a connection that presented tok
\* is due: setTimeout(..., 5000) server.js:446-450, setTimeout(..., 10000) 477-481
GraceDeadline(tok, t) ==
  t + (IF tok.kind = "none" THEN MISSING_TOKEN_GRACE ELSE REAUTH_GRACE)

TimerCloses_Unguarded(sock) == sock.connected

\* the guard of both timer callbacks, server.js:447 and 478; disconnect() on a
\* session that has already ended does nothing
TimerCloses(sock) == ~sock.authenticated /\ sock.connected

Init ==
  /\ now = StartTime
  /\ ticks = 0
  /\ connectionAttempts = EmptyMap
  /\ activeConnections = [ip \in IPs |-> {}]
  /\ sockets = <<>>
  /\ activeRooms = EmptyMap
  /\ userSockets = EmptyMap
  /\ socketUsers = EmptyMap
  /\ calls = {}
  /\ windowStart = [ip \in IPs |-> 0]
  /\ delivered = [sender |-> 0, kind |-> "", assignee |-> NoUser, team |-> NoTeam,
                  role |-> "none", narrowed |-> FALSE, copies |-> <<>>]

\* ------------------------------------------------- connection state machine
\* The two 'disconnect' listeners, in registration order: server.js:484-512
\* then socketHandlers.js:459-494.  `sock` is the record of socket s as the
\* caller leaves it; the transport has already emptied socket.rooms.
OnDisconnect(s, sock, why) ==
  LET ip      == sock.ip
      att     == IF MapHas(connectionAttempts, ip)
                   THEN LET a  == connectionAttempts[ip]
                            a1 == IF a.count > 0
                                    THEN [a EXCEPT !.count = Max(0, a.count - 1)]
                                    ELSE a
                            a2 == IF sock.isExpiredTokenAttempt /\ a1.expiredTokenAttempts > 0
                                    THEN [a1 EXCEPT !.expiredTokenAttempts = Max(0, @ - 1)]
                                    ELSE a1
                        IN MapSet(connectionAttempts, ip, a2)
                   ELSE connectionAttempts
      tracked == sock.authenticated /\ sock.userId # NoUser
      left    == IF tracked
                   THEN {p \in DOMAIN activeRooms : sock.userId \in activeRooms[p]}
                   ELSE {}
      us      == IF tracked /\ MapHas(userSockets, sock.userId)
                   THEN LET rest == userSockets[sock.userId] \ {s}
                        IN IF rest = {} THEN MapDelete(userSockets, sock.userId)
                                        ELSE MapSet(userSockets, sock.userId, rest)
                   ELSE userSockets
      Told(r) == {Notice("user_left", sock.userId, p.txt) :
                    p \in {q \in left : ProjectRoom(q) \in sockets[r].rooms}}
  IN /\ activeConnections' = [activeConnections EXCEPT ![ip] = @ \ {s}]
     /\ connectionAttempts' = att
     /\ activeRooms' = [p \in DOMAIN activeRooms |->
                          IF p \in left THEN activeRooms[p] \ {sock.userId}
                                        ELSE activeRooms[p]]
     /\ userSockets' = us
     /\ socketUsers' = MapDelete(socketUsers, s)
     /\ sockets' = [r \in SocketIds |->
                      IF r = s
                        THEN [sock EXCEPT !.connected = FALSE, !.closedBy = why,
                                          !.closedAt = now, !.rooms = {}]
                      ELSE IF sockets[r].connected
                        THEN [sockets[r] EXCEPT !.received = @ \cup Told(r)]
                      ELSE sockets[r]]

\* server.js:617-625: handleConnection(socket, io) up to the listener
\* registrations (socketHandlers.js:48-65), then the welcome message
Welcome(sock) == Emit([sock EXCEPT !.pc = "ready"], Notice("connected", "", ""))

\* io.on('connection') from accept to its first suspension or its end,
\* server.js:272-482 and 484-625
Connect(ip, tok) ==
  LET s             == Len(sockets) + 1
      sock          == NewSocket(ip, tok, now)
      isLocalhost   == IsLocalhost(ip)
      maxConcurrent == IF isLocalhost THEN MAX_CONNECTIONS_LOCALHOST ELSE MAX_CONNECTIONS_PER_IP
      msg           == VerifyMessage(tok)
      isTokenExpired == IncludesExpired(msg)
      isInvalidToken == IncludesInvalid(msg)
      useExpired    == tok.kind \notin {"none", "valid"} /\ isTokenExpired
      rl            == checkConnectionRateLimit(connectionAttempts, ip, useExpired, now)
      denied        == Emit(sock, Notice("rate_limit_exceeded",
                                         IF useExpired THEN "EXPIRED_TOKEN_RATE_LIMIT_EXCEEDED"
                                                       ELSE "RATE_LIMIT_EXCEEDED", ""))
      authError     == Emit([sock EXCEPT !.isExpiredTokenAttempt = isTokenExpired],
                            Notice("authentication_error",
                                   IF isTokenExpired THEN "TOKEN_EXPIRED"
                                   ELSE IF isInvalidToken THEN "INVALID_TOKEN" ELSE "AUTH_ERROR",
                                   IF isTokenExpired THEN "REFRESH_TOKEN" ELSE "RELOGIN"))
      result        ==
        IF ~rl.ok
          THEN [CloseUnhandled(denied, "rate_limit") EXCEPT !.pc = "rejected",
                   !.isExpiredTokenAttempt = useExpired]
        ELSE CASE tok.kind = "valid" ->
                    [sock EXCEPT !.userId = tok.user, !.userRole = RoleOf(tok.user),
                                 !.authenticated = TRUE, !.pc = "fetch"]
               [] tok.kind = "none" ->
                    Welcome([Emit(sock, Notice("authentication_required", "MISSING_TOKEN",
                                               "PROVIDE_TOKEN"))
                               EXCEPT !.timerPending = TRUE,
                                      !.timerAt = GraceDeadline(tok, now)])
               [] isTokenExpired ->
                    Welcome([authError EXCEPT !.timerPending = TRUE,
                                              !.timerAt = GraceDeadline(tok, now)])
               [] OTHER ->
                    Welcome(CloseUnhandled(authError, "invalid_token"))
  IN /\ UNCHANGED <<now, ticks, activeRooms, userSockets, socketUsers, calls, delivered>>
     /\ IF Cardinality(activeConnections[ip]) >= maxConcurrent
       THEN /\ sockets' = Append(sockets,
                 [CloseUnhandled(Emit(sock, Notice("connection_limit_exceeded",
                                                   "CONNECTION_LIMIT_EXCEEDED", "")),
                                 "connection_limit") EXCEPT !.pc = "rejected"])
            /\ UNCHANGED <<connectionAttempts, activeConnections, windowStart>>
       ELSE /\ activeConnections' = [activeConnections EXCEPT ![ip] = @ \cup {s}]
            /\ connectionAttempts' = rl.map
            /\ windowStart' = IF WindowRestarts(connectionAttempts, ip, now)
                                THEN [windowStart EXCEPT ![ip] = now]
                                ELSE windowStart
            /\ sockets' = Append(sockets, result)

\* ways a call to the system of record fails: error.code ECONNREFUSED or
\* ENOTFOUND, the 5 s axios timeout, a response with an error status
FetchFailures == {"unreachable", "timeout", "status"}

\* how fetchUserTeams can end: with the ids of the user's teams, or failing
TeamsOutcomes ==
  {[why |-> "ok", ids |-> ids] : ids \in SUBSET Teams}
    \cup {[why |-> f, ids |-> {}] : f \in FetchFailures}

\* how fetchUserTasks can end
TasksOutcomes == {"ok"} \cup FetchFailures

FetchedTeams_IgnoresTasks(teams, tasks) == IF teams.why = "ok" THEN teams.ids ELSE {}

\* the team ids the connection handler goes on with, given how the two calls
\* of Promise.all ended.  fetchUserTeams and fetchUserTasks return [] from their catch
\* blocks, except that the ECONNREFUSED / ENOTFOUND branch reads
\* pythonBackendUrl out of its scope (part_001:198, 235) and throws, which
\* rejects Promise.all and takes the handler to server.js:366-382 with no team.
FetchedTeams(teams, tasks) ==
  IF teams.why = "unreachable" \/ tasks = "unreachable" THEN {}
  ELSE IF teams.why \in FetchFailures THEN {}
  ELSE teams.ids

\* the rest of io.on('connection') once fetchUserTeams / fetchUserTasks have
\* settled with teamIds (empty when the call failed): server.js:344-382, then
\* 484-625 with handleConnection's tracking, socketHandlers.js:52-65
FetchDone(s, teamIds) ==
  LET sock   == sockets[s]
      joined == [sock EXCEPT !.rooms = @ \cup {TeamRoom(t) : t \in teamIds},
                             !.resolved = teamIds]
      told   == Emit(joined, Notice("authenticated", sock.userId, ""))
      mine   == IF MapHas(userSockets, sock.userId) THEN userSockets[sock.userId] ELSE {}
  IN /\ sock.pc = "fetch"
     /\ sockets' = [sockets EXCEPT ![s] = Welcome(told)]
     /\ userSockets' = MapSet(userSockets, sock.userId, mine \cup {s})
     /\ socketUsers' = MapSet(socketUsers, s, [userId |-> sock.userId, role |-> sock.userRole])
     /\ UNCHANGED <<now, ticks, connectionAttempts, activeConnections, activeRooms, calls,
                    windowStart, delivered>>

\* the transport reports the end of the session (client left, ping timeout)
ClientDisconnect(s) ==
  LET sock == sockets[s]
  IN /\ sock.connected
     /\ IF sock.pc = "ready"
          THEN OnDisconnect(s, sock, "client")
          ELSE /\ sockets' = [sockets EXCEPT ![s] = CloseUnhandled(sock, "client")]
               /\ UNCHANGED <<connectionAttempts, activeConnections, activeRooms,
                              userSockets, socketUsers>>
     /\ UNCHANGED <<now, ticks, calls, windowStart, delivered>>

\* the setTimeout callbacks of server.js:446-450 and 477-481
TimerFire(s) ==
  LET sock  == sockets[s]
      fired == [sock EXCEPT !.timerPending = FALSE]
  IN /\ sock.timerPending
     /\ now >= sock.timerAt
     /\ IF TimerCloses(sock)
          THEN OnDisconnect(s, fired, "grace_timer")
          ELSE /\ sockets' = [sockets EXCEPT ![s] = fired]
               /\ UNCHANGED <<connectionAttempts, activeConnections, activeRooms,
                              userSockets, socketUsers>>
     /\ UNCHANGED <<now, ticks, calls, windowStart, delivered>>

\* the wall clock advances; a due timer runs before anything later
Tick(d) ==
  /\ \A s \in SocketIds : sockets[s].timerPending => now + d <= sockets[s].timerAt
  /\ now' = now + d
  /\ ticks' = ticks + 1
  /\ UNCHANGED <<connectionAttempts, activeConnections, sockets, activeRooms, userSockets,
                 socketUsers, calls, windowStart, delivered>>

RefreshRejected_Revokes(sock, code, action) ==
  Emit([sock EXCEPT !.authenticated = FALSE, !.userId = NoUser],
       Notice("authentication_error", code, action))

\* what the refresh handler does to the connection when it rejects the
\* credential: one authentication_error notice, server.js:528-532, 608-613
RefreshRejected(sock, code, action) ==
  Emit(sock, Notice("authentication_error", code, action))

\* socket.on('refresh_token') up to its suspension, server.js:525-553, 594-614
Refresh(s, tok) ==
  LET sock == sockets[s]
      msg  == VerifyMessage(tok)
  IN /\ sock.connected
     /\ sock.pc = "ready"
     /\ CASE tok.kind = "none" ->
               /\ sockets' = [sockets EXCEPT ![s] = RefreshRejected(sock, "MISSING_TOKEN", "")]
               /\ calls' = calls
          [] tok.kind = "valid" ->
               /\ sockets' = [sockets EXCEPT ![s] =
                     [sock EXCEPT !.userId = tok.user, !.userRole = RoleOf(tok.user),
                                  !.authenticated = TRUE]]
               /\ calls' = calls \cup {[type |-> "refresh", socket |-> s, user |-> tok.user,
                                         kind |-> "", project |-> NoProject,
                                         assignee |-> NoUser]}
          [] OTHER ->
               /\ sockets' = [sockets EXCEPT ![s] =
                     RefreshRejected(sock,
                                     IF IncludesExpired(msg) THEN "REFRESH_TOKEN_EXPIRED"
                                                             ELSE "REFRESH_FAILED",
                                     "RELOGIN")]
               /\ calls' = calls
     /\ UNCHANGED <<now, ticks, connectionAttempts, activeConnections, activeRooms,
                    userSockets, socketUsers, windowStart, delivered>>

\* the rest of the refresh handler once the fetch has settled, server.js:555-593
RefreshFetchDone(c, teamIds) ==
  LET sock   == sockets[c.socket]
      joined == [sock EXCEPT !.rooms = @ \cup {TeamRoom(t) : t \in teamIds},
                             !.resolved = teamIds]
  IN /\ c \in calls
     /\ c.type = "refresh"
     /\ sockets' = [sockets EXCEPT ![c.socket] =
                      Emit(joined, Notice("token_refreshed", c.user, ""))]
     /\ calls' = calls \ {c}
     /\ UNCHANGED <<now, ticks, connectionAttempts, activeConnections, activeRooms,
                    userSockets, socketUsers, windowStart, delivered>>

Reclaimable_Always(t, lastAttempt) == TRUE

\* the test the reclaimer applies to a record at time t, server.js:98
Reclaimable(t, lastAttempt) == t - lastAttempt > CONNECTION_WINDOW * 2

\* setInterval cleanup, server.js:95-102
Cleanup ==
  /\ connectionAttempts' =
       [ip \in {i \in DOMAIN connectionAttempts :
                  ~Reclaimable(now, connectionAttempts[i].lastAttempt)}
          |-> connectionAttempts[ip]]
  /\ UNCHANGED <<now, ticks, activeConnections, sockets, activeRooms, userSockets,
                 socketUsers, calls, windowStart, delivered>>

\* ---------------------------------------------------- room / broadcast router
\* removeUserFromRoom, socketHandlers.js:522-531, for each project id of pids
removeUserFromRoom(m, pids, userId) ==
  [p \in {k \in DOMAIN m : ~(k \in pids /\ m[k] \ {userId} = {})} |->
     IF p \in pids THEN m[p] \ {userId} ELSE m[p]]

\* socket.to(room).emit(notice): every other live socket in the room
ToRoom(socks, s, room, notice) ==
  [r \in DOMAIN socks |->
     IF r # s /\ socks[r].connected /\ room \in socks[r].rooms
       THEN [socks[r] EXCEPT !.received = @ \cup {notice}]
       ELSE socks[r]]

ProjectRoomsOf_None(sock) == {}

\* the rooms join_project leaves first: room.startsWith('project_'),
\* socketHandlers.js:90-91
ProjectRoomsOf(sock) == {room \in sock.rooms : room[1] = "project"}

\* socket.on('join_project'), socketHandlers.js:68-124
JoinProject(s, projectId) ==
  LET sock     == sockets[s]
      previous == ProjectRoomsOf(sock)
      removed  == removeUserFromRoom(activeRooms, {ProjectIdOfRoom(room) : room \in previous},
                                     sock.userId)
      roomName == ProjectRoom(projectId)
      tracked  == MapSet(removed, projectId,
                         (IF MapHas(removed, projectId) THEN removed[projectId] ELSE {})
                           \cup {sock.userId})
      joined   == [sock EXCEPT !.rooms = (@ \ previous) \cup {roomName},
                               !.roomMembers = tracked[projectId]]
      told     == ToRoom([sockets EXCEPT ![s] = joined], s, roomName,
                         Notice("user_joined", sock.userId, projectId.txt))
  IN /\ sock.connected
     /\ sock.pc = "ready"
     /\ IF ~sock.authenticated
          THEN /\ sockets' = [sockets EXCEPT ![s] =
                                Emit(Refuse(sock, "join_project"),
                                     Notice("error", "AUTH_REQUIRED", ""))]
               /\ activeRooms' = activeRooms
          ELSE /\ sockets' = [told EXCEPT ![s] =
                                Emit(@, Notice("room_members", projectId.txt, ""))]
               /\ activeRooms' = tracked
     /\ UNCHANGED <<now, ticks, connectionAttempts, activeConnections, userSockets,
                    socketUsers, calls, windowStart, delivered>>

\* socket.on('leave_project'), socketHandlers.js:127-155
LeaveProject(s, projectId) ==
  LET sock     == sockets[s]
      roomName == ProjectRoom(projectId)
      gone     == [sock EXCEPT !.rooms = @ \ {roomName}]
  IN /\ sock.connected
     /\ sock.pc = "ready"
     /\ IF ~sock.authenticated
          THEN /\ sockets' = [sockets EXCEPT ![s] = Refuse(sock, "leave_project")]
               /\ activeRooms' = activeRooms
          ELSE /\ sockets' = ToRoom([sockets EXCEPT ![s] = gone], s, roomName,
                                    Notice("user_left", sock.userId, projectId.txt))
               /\ activeRooms' = removeUserFromRoom(activeRooms, {projectId}, sock.userId)
     /\ UNCHANGED <<now, ticks, connectionAttempts, activeConnections, userSockets,
                    socketUsers, calls, windowStart, delivered>>

\* the event a client sends and the one the room is sent in return
EphemeralKinds == {"user_typing", "cursor_position"}
EphemeralEvent(kind) == IF kind = "user_typing" THEN "typing_indicator" ELSE "user_cursor"

\* socket.on('user_typing') and socket.on('cursor_position'),
\* socketHandlers.js:361-382 and 385-405.  projectId is the payload's project
\* id (NoProject when absent); complete is FALSE when a cursor_position
\* payload carries no position.
Ephemeral(s, kind, projectId, complete) ==
  LET sock     == sockets[s]
      roomName == ProjectRoom(projectId)
      dropped  == \/ projectId = NoProject
                  \/ (kind = "cursor_position" /\ ~complete)
  IN /\ sock.connected
     /\ sock.pc = "ready"
     /\ sockets' = IF ~sock.authenticated THEN [sockets EXCEPT ![s] = Refuse(sock, kind)]
                   ELSE IF dropped THEN sockets
                   ELSE ToRoom(sockets, s, roomName,
                               Notice(EphemeralEvent(kind), sock.userId, projectId.txt))
     /\ UNCHANGED <<now, ticks, connectionAttempts, activeConnections, activeRooms,
                    userSockets, socketUsers, calls, windowStart, delivered>>

BroadcastKinds == {"task_updated", "task_created", "task_deleted", "project_updated"}
NarrowedKinds  == {"task_updated", "task_created"}

\* a domain-event handler up to `await getProjectTeamId(...)`:
\* socketHandlers.js:158-181, 229-252, 299-322, 408-431
Broadcast(s, kind, projectId, assigneeId) ==
  LET sock == sockets[s]
  IN /\ sock.connected
     /\ sock.pc = "ready"
     /\ IF ~sock.authenticated
          THEN /\ sockets' = [sockets EXCEPT ![s] =
                                Emit(Refuse(sock, kind), Notice("error", "AUTH_REQUIRED", ""))]
               /\ calls' = calls
          ELSE /\ calls' = calls \cup {[type |-> "broadcast", socket |-> s, user |-> NoUser,
                                        kind |-> kind, project |-> projectId,
                                        assignee |-> assigneeId]}
               /\ sockets' = sockets
     /\ UNCHANGED <<now, ticks, connectionAttempts, activeConnections, activeRooms,
                    userSockets, socketUsers, windowStart, delivered>>

Copies_ProjectRoom(c, teamId, r) ==
  IF teamId # NoTeam /\ sockets[r].connected /\ ProjectRoom(c.project) \in sockets[r].rooms
    THEN 1 ELSE 0

Copies_TeamWide(c, teamId, r) ==
  IF teamId # NoTeam /\ sockets[r].connected /\ TeamRoom(teamId) \in sockets[r].rooms
    THEN 1 ELSE 0

\* who gets how many copies of the event once the team id is known:
\* socketHandlers.js:182-217 (and 253-287, 323-349, 432-447)
Copies(c, teamId, r) ==
  LET sock     == sockets[c.socket]
      narrowed == c.kind \in NarrowedKinds /\ sock.userRole = "member" /\ c.assignee # NoUser
  IN IF teamId = NoTeam \/ ~sockets[r].connected THEN 0
     ELSE IF narrowed
       THEN (IF sockets[r].authenticated /\ sockets[r].userId = c.assignee THEN 1 ELSE 0)
            + (IF r = c.socket THEN 1 ELSE 0)
     ELSE IF TeamRoom(teamId) \in sockets[r].rooms THEN 1 ELSE 0

\* the rest of a domain-event handler; teamId = NoTeam when the lookup failed
ResolveBroadcast(c, teamId) ==
  LET sock == sockets[c.socket]
  IN /\ c \in calls
     /\ c.type = "broadcast"
     /\ calls' = calls \ {c}
     /\ delivered' = [sender |-> c.socket, kind |-> c.kind, assignee |-> c.assignee,
                      team |-> teamId, role |-> sock.userRole,
                      narrowed |-> (c.kind \in NarrowedKinds /\ sock.userRole = "member"
                                     /\ c.assignee # NoUser),
                      copies |-> [r \in SocketIds |-> Copies(c, teamId, r)]]
     /\ UNCHANGED <<now, ticks, connectionAttempts, activeConnections, sockets, activeRooms,
                    userSockets, socketUsers, windowStart>>

\* the code of the error notice a domain-event handler's catch block sends:
\* socketHandlers.js:222, 292, 354, 452
FailureCode(kind) ==
  CASE kind = "task_updated" -> "TASK_UPDATE_FAILED"
    [] kind = "task_created" -> "TASK_CREATE_FAILED"
    [] kind = "task_deleted" -> "TASK_DELETE_FAILED"
    [] OTHER                 -> "PROJECT_UPDATE_FAILED"

\* the rest of a domain-event handler when the system of record cannot be
\* reached (error.code ECONNREFUSED or ENOTFOUND): the catch block of
\* getProjectTeamId reads pythonBackendUrl, a const of the try block, at
\* socketHandlers.js:33; the ReferenceError rejects the lookup and the
\* handler's own catch block answers the sender (socketHandlers.js:218-225)
BroadcastLookupThrows(c) ==
  LET sock == sockets[c.socket]
  IN /\ c \in calls
     /\ c.type = "broadcast"
     /\ calls' = calls \ {c}
     /\ sockets' = [sockets EXCEPT ![c.socket] =
                      Emit(sock, Notice("error", FailureCode(c.kind), ""))]
     /\ delivered' = [sender |-> c.socket, kind |-> c.kind, assignee |-> c.assignee,
                      team |-> NoTeam, role |-> sock.userRole,
                      narrowed |-> (c.kind \in NarrowedKinds /\ sock.userRole = "member"
                                     /\ c.assignee # NoUser),
                      copies |-> [r \in SocketIds |-> 0]]
     /\ UNCHANGED <<now, ticks, connectionAttempts, activeConnections, activeRooms,
                    userSockets, socketUsers, windowStart>>

\* ------------------------------------------------------------ specification
MaxCalls == 1        \* handlers suspended in a system-of-record call at once
Headroom == 2        \* free connection slots below the ceiling of a busy address at the start

Tokens == {NoToken, ExpiredToken, MalformedToken} \cup {ValidToken(u) : u \in Users}

\* Every event the gateway handles.
Next ==
  \/ \E ip \in IPs, tok \in Tokens : Len(sockets) < MaxSockets /\ Connect(ip, tok)
  \/ \E s \in SocketIds, teamIds \in SUBSET Teams : FetchDone(s, teamIds)
  \/ \E s \in SocketIds : ClientDisconnect(s)
  \/ \E s \in SocketIds : TimerFire(s)
  \/ \E d \in Steps : ticks < MaxTicks /\ Tick(d)
  \/ \E s \in SocketIds, tok \in Tokens : Cardinality(calls) < MaxCalls /\ Refresh(s, tok)
  \/ \E c \in calls, teamIds \in SUBSET Teams : RefreshFetchDone(c, teamIds)
  \/ Cleanup
  \/ \E s \in SocketIds, p \in Projects : JoinProject(s, p)
  \/ \E s \in SocketIds, p \in Projects : LeaveProject(s, p)
  \/ \E s \in SocketIds, k \in BroadcastKinds, p \in Projects, a \in Users \cup {NoUser} :
        Cardinality(calls) < MaxCalls /\ Broadcast(s, k, p, a)
  \/ \E c \in calls, t \in Teams \cup {NoTeam} : ResolveBroadcast(c, t)
  \/ \E c \in calls : BroadcastLookupThrows(c)
  \/ \E s \in SocketIds, k \in EphemeralKinds, p \in Projects \cup {NoProject},
          complete \in BOOLEAN : Ephemeral(s, k, p, complete)

Spec == Init /\ [][Next]_vars

\* Admission control: the events that read or write the AdmissionRecords.
\* Refresh, room and broadcast events touch none of them and are left out; one
\* user and no team are enough since no identity is compared here.
AdmissionTokens == {NoToken, ExpiredToken, MalformedToken, ValidToken("u1")}

AdmissionEvents(maxSockets) ==
  \/ \E ip \in {LocalIP, RemoteIP}, tok \in AdmissionTokens :
        Len(sockets) < maxSockets /\ Connect(ip, tok)
  \/ \E s \in SocketIds : FetchDone(s, {})
  \/ \E s \in SocketIds : ClientDisconnect(s)
  \/ \E s \in SocketIds : TimerFire(s)
  \/ \E d \in Steps : ticks < MaxTicks /\ Tick(d)
  \/ Cleanup

NextAdmission == AdmissionEvents(MaxSockets)
SpecAdmission == Init /\ [][NextAdmission]_vars

\* the same events with one more connection, for runs of three attempts
NextAdmissionLong == AdmissionEvents(MaxSockets + 1)
SpecAdmissionLong == Init /\ [][NextAdmissionLong]_vars

\* The grace periods: connections from one address that arrive without a
\* usable credential, their refreshes, the grace timers and teardown, with the
\* clock moving in steps of the shorter grace period.
GraceTokens == {NoToken, ExpiredToken}

NextGrace ==
  \/ \E tok \in GraceTokens : Len(sockets) < MaxSockets /\ Connect(RemoteIP, tok)
  \/ \E s \in SocketIds : ClientDisconnect(s)
  \/ \E s \in SocketIds : TimerFire(s)
  \/ ticks < MaxTicks /\ Tick(REAUTH_GRACE)
  \/ \E s \in SocketIds, tok \in {ValidToken("u1"), ExpiredToken} :
        Cardinality(calls) < MaxCalls /\ Refresh(s, tok)
  \/ \E c \in calls : RefreshFetchDone(c, {"t1"})

SpecGrace == Init /\ [][NextGrace]_vars

\* Presence: the events that read or write the registries and the project
\* rooms, for the connections of two users that are admitted at once from two
\* addresses.  The clock stands still: no grace timer is armed for a connection
\* that presents a valid credential.
PresenceUsers == {"u1", "u2"}

NextPresence ==
  \/ \E ip \in {LocalIP, RemoteIP}, u \in PresenceUsers :
        Len(sockets) < MaxSockets /\ Connect(ip, ValidToken(u))
  \/ \E s \in SocketIds : FetchDone(s, {"t1"})
  \/ \E s \in SocketIds : ClientDisconnect(s)
  \/ \E s \in SocketIds, p \in Projects : JoinProject(s, p)
  \/ \E s \in SocketIds, p \in Projects : LeaveProject(s, p)

SpecPresence == Init /\ [][NextPresence]_vars

\* the addresses each user's devices connect from
AddressesOf(u) ==
  CASE u = "u1" -> {LocalIP}
    [] u = "u2" -> {RemoteIP, OtherIP}
    [] OTHER    -> {OtherIP}

\* Ephemeral fan-out: one connection each of u1 and u2, joining and leaving
\* one project's room and sending typing and cursor events about either
\* project or without a project.
NextEphemeral ==
  \/ \E u \in PresenceUsers, ip \in IPs :
        /\ Len(sockets) < MaxSockets /\ ip \in AddressesOf(u)
        /\ \A r \in SocketIds : sockets[r].userId # u
        /\ Connect(ip, ValidToken(u))
  \/ \E s \in SocketIds : FetchDone(s, {"t1"})
  \/ \E s \in SocketIds : JoinProject(s, [num |-> FALSE, txt |-> "123"])
  \/ \E s \in SocketIds : LeaveProject(s, [num |-> FALSE, txt |-> "123"])
  \/ \E s \in SocketIds, k \in EphemeralKinds, p \in Projects \cup {NoProject},
          complete \in BOOLEAN : Ephemeral(s, k, p, complete)

SpecEphemeral == Init /\ [][NextEphemeral]_vars

\* Operations without authentication: a connection that presented no
\* credential and a connection of u1, each trying every router operation
\* about one project; the grace timer is not due while the clock stands still.
NextUnauthorized ==
  \/ \E ip \in {LocalIP, RemoteIP}, tok \in {NoToken, ValidToken("u1")} :
        Len(sockets) < MaxSockets /\ Connect(ip, tok)
  \/ \E s \in SocketIds : FetchDone(s, {"t1"})
  \/ \E s \in SocketIds : JoinProject(s, [num |-> FALSE, txt |-> "123"])
  \/ \E s \in SocketIds : LeaveProject(s, [num |-> FALSE, txt |-> "123"])
  \/ \E s \in SocketIds, k \in EphemeralKinds :
        Ephemeral(s, k, [num |-> FALSE, txt |-> "123"], TRUE)
  \/ \E s \in SocketIds :
        /\ Cardinality(calls) < MaxCalls
        /\ Broadcast(s, "task_deleted", [num |-> FALSE, txt |-> "123"], NoUser)
  \/ \E c \in calls : ResolveBroadcast(c, "t1")

SpecUnauthorized == Init /\ [][NextUnauthorized]_vars

\* The connect-time fetch: connections of u1 and u3 from two addresses whose
\* team and task calls end in every way, and their teardown.  The clock
\* stands still.
NextFetch ==
  \/ \E ip \in {LocalIP, RemoteIP}, u \in {"u1", "u3"} :
        Len(sockets) < MaxSockets /\ Connect(ip, ValidToken(u))
  \/ \E s \in SocketIds, teams \in TeamsOutcomes, tasks \in TasksOutcomes :
        FetchDone(s, FetchedTeams(teams, tasks))
  \/ \E s \in SocketIds : ClientDisconnect(s)

SpecFetch == Init /\ [][NextFetch]_vars

\* Re-authentication: the same events about one project, for connections that
\* are opened with the credential of u1 and may later refresh with the
\* credential of u2.
NextReauth ==
  \/ \E ip \in {LocalIP, RemoteIP} : Len(sockets) < MaxSockets /\ Connect(ip, ValidToken("u1"))
  \/ \E s \in SocketIds : FetchDone(s, {"t1"})
  \/ \E s \in SocketIds : ClientDisconnect(s)
  \/ \E s \in SocketIds : Cardinality(calls) < MaxCalls /\ Refresh(s, ValidToken("u2"))
  \/ \E c \in calls : RefreshFetchDone(c, {"t1"})
  \/ \E s \in SocketIds : JoinProject(s, [num |-> FALSE, txt |-> "123"])
  \/ \E s \in SocketIds : LeaveProject(s, [num |-> FALSE, txt |-> "123"])

SpecReauth == Init /\ [][NextReauth]_vars

\* The broadcast router: connections of two members and an administrator of
\* team t1, one more than MaxSockets so that a sender, an assignee and a third
\* team member can be connected together, raising domain events about one
\* project.  The clock stands still.
NextRouter ==
  \/ \E u \in Users, ip \in IPs :
        Len(sockets) < MaxSockets + 1 /\ ip \in AddressesOf(u) /\ Connect(ip, ValidToken(u))
  \/ \E s \in SocketIds : FetchDone(s, {"t1"})
  \/ \E s \in SocketIds : ClientDisconnect(s)
  \/ \E s \in SocketIds, k \in {"task_updated", "task_deleted"}, a \in Users \cup {NoUser} :
        Cardinality(calls) < MaxCalls /\ Broadcast(s, k, [num |-> FALSE, txt |-> "123"], a)
  \/ \E c \in calls, t \in {"t1", NoTeam} : ResolveBroadcast(c, t)

SpecRouter == Init /\ [][NextRouter]_vars

\* Team scope: a member and an administrator, one connection each, whose team
\* lookup at authentication gave team t1 or nothing, joining the room of one
\* project and raising every kind of domain event about it; the project's team
\* is found, is not found, or the system of record cannot be reached.  Task
\* updated is handled exactly as task created and is left out.
NextScope ==
  \/ \E u \in {"u1", "u3"}, ip \in IPs :
        /\ Len(sockets) < MaxSockets /\ ip \in AddressesOf(u)
        /\ \A r \in SocketIds : sockets[r].userId # u
        /\ Connect(ip, ValidToken(u))
  \/ \E s \in SocketIds, teamIds \in {{}, {"t1"}} : FetchDone(s, teamIds)
  \/ \E s \in SocketIds : JoinProject(s, [num |-> FALSE, txt |-> "123"])
  \/ \E s \in SocketIds, k \in {"task_created", "task_deleted", "project_updated"},
          a \in {NoUser, "u1"} :
        Cardinality(calls) < MaxCalls /\ Broadcast(s, k, [num |-> FALSE, txt |-> "123"], a)
  \/ \E c \in calls, t \in {"t1", NoTeam} : ResolveBroadcast(c, t)
  \/ \E c \in calls : BroadcastLookupThrows(c)

SpecScope == Init /\ [][NextScope]_vars

\* Credentials that fail verification: connections from two addresses that
\* present a malformed, a premature or an expired credential, their teardown,
\* the grace timers and the clock.
NextRejected ==
  \/ \E ip \in {LocalIP, RemoteIP}, tok \in {MalformedToken, PrematureToken, ExpiredToken} :
        Len(sockets) < MaxSockets /\ Connect(ip, tok)
  \/ \E s \in SocketIds : ClientDisconnect(s)
  \/ \E s \in SocketIds : TimerFire(s)
  \/ \E d \in Steps : ticks < MaxTicks /\ Tick(d)

SpecRejected == Init /\ [][NextRejected]_vars

\* An address that already holds k open connections.  Busy(ip, k) is the state
\* the gateway is in at StartTime after k clients of u1 connected from ip one
\* general cooldown apart (the last one a cooldown ago), each with a valid
\* credential, and completed the handshake with no team: k runs of Connect and
\* FetchDone with Tick in between.
CooldownOf(ip) ==
  IF IsLocalhost(ip) THEN CONNECTION_COOLDOWN_LOCALHOST ELSE CONNECTION_COOLDOWN

CeilingOf(ip) ==
  IF IsLocalhost(ip) THEN MAX_CONNECTIONS_LOCALHOST ELSE MAX_CONNECTIONS_PER_IP

ArrivedAt(ip, k, i) == StartTime - (k - i + 1) * CooldownOf(ip)

BusySocket(ip, t) ==
  Welcome(Emit([NewSocket(ip, ValidToken("u1"), t) EXCEPT
                  !.userId = "u1", !.userRole = RoleOf("u1"),
                  !.authenticated = TRUE, !.pc = "fetch"],
               Notice("authenticated", "u1", "")))

Busy(ip, k) ==
  /\ now = StartTime
  /\ ticks = 0
  /\ connectionAttempts =
       [i \in (IF k = 0 THEN {} ELSE {ip}) |->
          [count |-> k, lastAttempt |-> ArrivedAt(ip, k, k),
           isLocalhost |-> IsLocalhost(ip), expiredTokenAttempts |-> 0]]
  /\ activeConnections = [i \in IPs |-> IF i = ip THEN 1..k ELSE {}]
  /\ sockets = [i \in 1..k |-> BusySocket(ip, ArrivedAt(ip, k, i))]
  /\ activeRooms = EmptyMap
  /\ userSockets = [u \in (IF k = 0 THEN {} ELSE {"u1"}) |-> 1..k]
  /\ socketUsers = [i \in 1..k |-> [userId |-> "u1", role |-> RoleOf("u1")]]
  /\ calls = {}
  /\ windowStart = [i \in IPs |-> IF i = ip /\ k > 0 THEN ArrivedAt(ip, k, 1) ELSE 0]
  /\ delivered = [sender |-> 0, kind |-> "", assignee |-> NoUser, team |-> NoTeam,
                  role |-> "none", narrowed |-> FALSE, copies |-> <<>>]

InitBusy ==
  \E ip \in {LocalIP, RemoteIP} :
    \E k \in (CeilingOf(ip) - Headroom)..CeilingOf(ip) : Busy(ip, k)

\* connections accepted since StartTime
Arrivals == {s \in SocketIds : sockets[s].connectedAt >= StartTime}

\* The concurrent-connection ceiling: further connections arrive at a busy
\* address, the latest connections may leave, and the clock moves by either
\* general cooldown.
NextCeiling ==
  \/ \E ip \in {LocalIP, RemoteIP}, tok \in {NoToken, ValidToken("u1")} :
        Cardinality(Arrivals) < MaxSockets /\ Connect(ip, tok)
  \/ \E s \in SocketIds : FetchDone(s, {})
  \/ \E s \in SocketIds : s + MaxSockets >= Len(sockets) /\ ClientDisconnect(s)
  \/ \E d \in {CONNECTION_COOLDOWN_LOCALHOST, CONNECTION_COOLDOWN} :
        ticks < MaxTicks /\ Tick(d)

SpecCeiling == InitBusy /\ [][NextCeiling]_vars

\* Inputs of the admission checks taken as pure functions: the contents of an
\* AdmissionRecord, around the ceilings and cooldowns of both classes of
\* address and around the window.
RecordCounts  == {0, 9, 10, 19, 20}
RecordExpired == {0, 9, 10, 49, 50}
RecordAges    == {0, 499, 500, 999, 1000, 1999, 2000, 60000, 60001}

\* the trusted-local and one other address start with AdmissionRecords of the
\* same contents, whatever these are, and no open connection
InitRecords ==
  \E c \in RecordCounts, e \in RecordExpired, age \in RecordAges :
    /\ now = StartTime
    /\ ticks = 0
    /\ connectionAttempts =
         [ip \in {LocalIP, RemoteIP} |->
            [count |-> c, lastAttempt |-> StartTime - age,
             isLocalhost |-> IsLocalhost(ip), expiredTokenAttempts |-> e]]
    /\ activeConnections = [ip \in IPs |-> {}]
    /\ sockets = <<>>
    /\ activeRooms = EmptyMap
    /\ userSockets = EmptyMap
    /\ socketUsers = EmptyMap
    /\ calls = {}
    /\ windowStart = [ip \in IPs |-> IF ip = OtherIP THEN 0 ELSE StartTime - age]
    /\ delivered = [sender |-> 0, kind |-> "", assignee |-> NoUser, team |-> NoTeam,
                    role |-> "none", narrowed |-> FALSE, copies |-> <<>>]

\* one attempt of either path from each of the two addresses, at one instant
NextRecords ==
  \E ip \in {LocalIP, RemoteIP}, tok \in {NoToken, ExpiredToken} :
    /\ Len(sockets) < MaxSockets
    /\ \A r \in SocketIds : sockets[r].ip # ip
    /\ Connect(ip, tok)

SpecRecords == InitRecords /\ [][NextRecords]_vars

\* An address whose earlier connections were all turned away.  Leaky(ip, k) is
\* the state the gateway is in at StartTime after k clients connected from ip
\* one general cooldown apart (the last one a cooldown ago), each presenting a
\* malformed credential: k runs of Connect with Tick in between.  Each passed
\* the general attempt-rate check and was closed at server.js:452.
LeakedSocket(ip, t) ==
  [NewSocket(ip, MalformedToken, t) EXCEPT
     !.connected = FALSE, !.pc = "ready", !.closedBy = "invalid_token", !.closedAt = t,
     !.received = {Notice("authentication_error",
                          IF IncludesInvalid(VerifyMessage(MalformedToken))
                            THEN "INVALID_TOKEN" ELSE "AUTH_ERROR",
                          "RELOGIN")}]

Leaky(ip, k) ==
  /\ now = StartTime
  /\ ticks = 0
  /\ connectionAttempts =
       [i \in (IF k = 0 THEN {} ELSE {ip}) |->
          [count |-> k, lastAttempt |-> ArrivedAt(ip, k, k),
           isLocalhost |-> IsLocalhost(ip), expiredTokenAttempts |-> 0]]
  /\ activeConnections = [i \in IPs |-> IF i = ip THEN 1..k ELSE {}]
  /\ sockets = [i \in 1..k |-> LeakedSocket(ip, ArrivedAt(ip, k, i))]
  /\ activeRooms = EmptyMap
  /\ userSockets = EmptyMap
  /\ socketUsers = EmptyMap
  /\ calls = {}
  /\ windowStart = [i \in IPs |-> IF i = ip /\ k > 0 THEN ArrivedAt(ip, k, 1) ELSE 0]
  /\ delivered = [sender |-> 0, kind |-> "", assignee |-> NoUser, team |-> NoTeam,
                  role |-> "none", narrowed |-> FALSE, copies |-> <<>>]

InitLeaky ==
  \E ip \in {LocalIP, RemoteIP} :
    \E k \in (CeilingOf(ip) - Headroom)..CeilingOf(ip) : Leaky(ip, k)

\* Recovery of an address: further connections arrive with a malformed or a
\* valid credential, the latest connections may leave, the reclaimer runs and
\* the clock moves by a general cooldown or by more than the window.
NextLockout ==
  \/ \E ip \in {LocalIP, RemoteIP}, tok \in {MalformedToken, ValidToken("u1")} :
        Cardinality(Arrivals) < MaxSockets /\ Connect(ip, tok)
  \/ \E s \in SocketIds : FetchDone(s, {})
  \/ \E s \in SocketIds : s + MaxSockets >= Len(sockets) /\ ClientDisconnect(s)
  \/ \E d \in {CONNECTION_COOLDOWN, CONNECTION_WINDOW * 2 + 1} :
        ticks < MaxTicks /\ Tick(d)
  \/ Cleanup

SpecLockout == InitLeaky /\ [][NextLockout]_vars

\* Team scopes across refreshes: connections opened with the credential of u1,
\* a member of team t1, that refresh with the credential of u1 or of u2 while
\* the system of record resolves the refreshed identity into t1, into t2 or
\* into no team.  The clock stands still.
NextRescope ==
  \/ \E ip \in {LocalIP, RemoteIP} : Len(sockets) < MaxSockets /\ Connect(ip, ValidToken("u1"))
  \/ \E s \in SocketIds : FetchDone(s, {"t1"})
  \/ \E s \in SocketIds : ClientDisconnect(s)
  \/ \E s \in SocketIds, u \in {"u1", "u2"} :
        Cardinality(calls) < MaxCalls /\ Refresh(s, ValidToken(u))
  \/ \E c \in calls, teamIds \in {{}, {"t1"}, {"t2"}} : RefreshFetchDone(c, teamIds)

SpecRescope == Init /\ [][NextRescope]_vars

\* Narrowing across teams: one connection each of the members u1 and u2, each
\* resolved into team t1 or into team t2 at authentication, raising task
\* events about one project with or without u2 as the assignee; the project's
\* team is t1 or is not found.  The clock stands still.
NextNarrow ==
  \/ \E u \in PresenceUsers, ip \in IPs :
        /\ Len(sockets) < MaxSockets /\ ip \in AddressesOf(u)
        /\ \A r \in SocketIds : sockets[r].userId # u
        /\ Connect(ip, ValidToken(u))
  \/ \E s \in SocketIds, teamIds \in {{"t1"}, {"t2"}} : FetchDone(s, teamIds)
  \/ \E s \in SocketIds : ClientDisconnect(s)
  \/ \E s \in SocketIds, k \in NarrowedKinds, a \in {NoUser, "u2"} :
        Cardinality(calls) < MaxCalls /\ Broadcast(s, k, [num |-> FALSE, txt |-> "123"], a)
  \/ \E c \in calls, t \in {"t1", NoTeam} : ResolveBroadcast(c, t)

SpecNarrow == Init /\ [][NextNarrow]_vars

\* Refreshes that fail: connections opened with the credential of u1 from two
\* addresses that join the room of one project and refresh with no
\* credential, with a malformed or an expired one, or with the credential of
\* u2.  The clock stands still: no grace timer is armed for a connection that
\* presents a valid credential.
FailingTokens == {NoToken, MalformedToken, ExpiredToken, PrematureToken}

NextRefreshFail ==
  \/ \E ip \in {LocalIP, RemoteIP} : Len(sockets) < MaxSockets /\ Connect(ip, ValidToken("u1"))
  \/ \E s \in SocketIds : FetchDone(s, {"t1"})
  \/ \E s \in SocketIds : ClientDisconnect(s)
  \/ \E s \in SocketIds : JoinProject(s, [num |-> FALSE, txt |-> "123"])
  \/ \E s \in SocketIds, tok \in FailingTokens \cup {ValidToken("u2")} :
        Cardinality(calls) < MaxCalls /\ Refresh(s, tok)
  \/ \E c \in calls : RefreshFetchDone(c, {"t1"})

SpecRefreshFail == Init /\ [][NextRefreshFail]_vars

\* ------------------------------------------------------------------ claims
\* C1 (as claimed): every connection id held in the identity -> connections
\* registry is a live, authenticated connection whose current identity is the
\* key it is filed under.
C1_RegistryLive ==
  \A u \in DOMAIN userSockets :
    \A s \in userSockets[u] :
      /\ s \in SocketIds
      /\ sockets[s].connected
      /\ sockets[s].authenticated
      /\ sockets[s].userId = u

\* every identity in a project's member set has a live connection joined to
\* the project's room
MembersAreJoined ==
  \A p \in DOMAIN activeRooms :
    \A u \in activeRooms[p] :
      \E s \in SocketIds : /\ sockets[s].connected
                           /\ sockets[s].authenticated
                           /\ sockets[s].userId = u
                           /\ ProjectRoom(p) \in sockets[s].rooms

\* a join, a leave or a disconnect has just been handled
JoinLeaveOrDisconnect ==
  \/ activeRooms' # activeRooms
  \/ \E s \in SocketIds :
        \/ sockets[s].connected /\ ~sockets'[s].connected
        \/ {r \in sockets'[s].rooms : r[1] = "project"}
             # {r \in sockets[s].rooms : r[1] = "project"}

\* C2 (as claimed): after every join, leave and disconnect, every identity in
\* a project room's member set has at least one live connection joined to that
\* room.
C2_MembersJoinedAfterEachStep ==
  [][JoinLeaveOrDisconnect => MembersAreJoined']_vars

\* C3 (as claimed): when the identity fetch of a connection that was torn down
\* while the fetch was outstanding completes, nothing is applied: the
\* connection is given no team scope and no registry or other server state
\* refers to it.
C3_NothingAppliedAfterTeardown ==
  [][\A s \in SocketIds :
       (sockets[s].pc = "fetch" /\ ~sockets[s].connected /\ sockets'[s].pc # "fetch") =>
          /\ sockets'[s].rooms = {}
          /\ \A u \in DOMAIN userSockets' : s \notin userSockets'[u]
          /\ s \notin DOMAIN socketUsers'
          /\ \A ip \in IPs : s \notin activeConnections'[ip]
  ]_vars

\* C5: when a member-role sender raises task created or task updated with an
\* assignee and the project's team is found, copies go to the sender's
\* connection and to the connections of the assignee and to nobody else: the
\* sender's connection (while open) and every open authenticated connection of
\* the assignee get one, and no connection of a third identity gets any.
C5_NarrowedDelivery ==
  (delivered.narrowed /\ delivered.team # NoTeam) =>
    \A r \in DOMAIN delivered.copies :
      LET mine == r = delivered.sender
          his  == sockets[r].authenticated /\ sockets[r].userId = delivered.assignee
      IN /\ delivered.copies[r] > 0 => (mine \/ his)
         /\ (sockets[r].connected /\ (mine \/ his)) => delivered.copies[r] > 0

\* C5 witness: a member's narrowed event reached the sender and the assignee
\* while a third member of the team room was connected and got nothing
C5_Witness ==
  /\ delivered.narrowed /\ delivered.team # NoTeam
  /\ delivered.kind \in NarrowedKinds
  /\ \E a, o \in DOMAIN delivered.copies :
        /\ a # delivered.sender /\ o # delivered.sender /\ a # o
        /\ delivered.copies[delivered.sender] > 0
        /\ sockets[a].userId = delivered.assignee /\ delivered.copies[a] > 0
        /\ sockets[o].connected /\ TeamRoom(delivered.team) \in sockets[o].rooms
        /\ sockets[o].userId \notin {delivered.assignee, sockets[delivered.sender].userId}
        /\ delivered.copies[o] = 0

\* a connection that got past the concurrent-connection ceiling and the
\* attempt-rate check of its path
Admitted(s) == sockets[s].closedBy \notin {"rate_limit", "connection_limit"}

\* the admission path a connection's connect-time credential was judged on
OnExpiredPath(s) == sockets[s].token.kind = "expired"

\* C4 (as claimed): expired-token attempts and general attempts consume
\* independent budgets, so every attempt-rate denial is explained by the
\* attempts of its own path alone: an earlier admitted attempt of the same path
\* from the address less than that path's cooldown ago, or as many admitted
\* attempts of the same path within the window as the path's ceiling.
C4_IndependentBudgets ==
  \A s \in SocketIds :
    sockets[s].closedBy = "rate_limit" =>
      LET local    == sockets[s].ip = LocalIP
          own      == {r \in 1..(s - 1) : /\ sockets[r].ip = sockets[s].ip
                                          /\ Admitted(r)
                                          /\ OnExpiredPath(r) = OnExpiredPath(s)}
          age(r)   == sockets[s].connectedAt - sockets[r].connectedAt
          cooldown == IF OnExpiredPath(s) THEN (IF local THEN 1000 ELSE 2000)
                                          ELSE (IF local THEN 500 ELSE 2000)
          ceiling  == IF OnExpiredPath(s) THEN (IF local THEN 50 ELSE 10)
                                          ELSE (IF local THEN 20 ELSE 10)
      IN \/ \E r \in own : age(r) < cooldown
         \/ Cardinality({r \in own : age(r) <= 60000}) >= ceiling

C7_WindowReset ==
  [][Len(sockets') = Len(sockets) + 1 =>
       LET s      == Len(sockets')
           n      == sockets'[s]
           last   == IF n.ip \in DOMAIN connectionAttempts
                       THEN connectionAttempts[n.ip].lastAttempt ELSE 0
           inWindow == {r \in SocketIds : /\ sockets[r].ip = n.ip
                                          /\ Admitted(r) /\ ~OnExpiredPath(r)
                                          /\ sockets[r].connectedAt >= windowStart[n.ip]}
       IN (n.ip = RemoteIP /\ n.token.kind # "expired" /\ n.closedBy # "connection_limit") =>
            /\ (now - windowStart[n.ip] <= 60000 /\ Cardinality(inWindow) >= 10)
                 => n.closedBy = "rate_limit"
            /\ (now - windowStart[n.ip] > 60000 /\ now - last >= 2000)
                 => /\ n.closedBy # "rate_limit"
                    /\ connectionAttempts'[n.ip].count = 1
                    /\ connectionAttempts'[n.ip].expiredTokenAttempts = 0
  ]_vars

\* C8 (as claimed): every connection presenting no credential receives the
\* authentication-required notice, is closed by the grace timer exactly 10 s
\* after it connected if it is still unauthenticated then, and is not closed
\* for lack of authentication before.
C8_EveryNoCredentialConnection ==
  \A s \in SocketIds :
    sockets[s].token.kind = "none" =>
      /\ Notice("authentication_required", "MISSING_TOKEN", "PROVIDE_TOKEN") \in sockets[s].received
      /\ sockets[s].closedBy = "grace_timer" => sockets[s].closedAt = sockets[s].connectedAt + 10000
      /\ (sockets[s].connected /\ ~sockets[s].authenticated) =>
            /\ now <= sockets[s].connectedAt + 10000
            /\ sockets[s].timerPending

\* C8 (amended): a connection presenting no credential that is admitted, i.e.
\* passes the concurrent-connection ceiling and the general attempt-rate check,
\* receives the authentication-required notice, is closed by the grace timer
\* exactly 10 s after it connected if it is still unauthenticated then, and is
\* never closed for lack of authentication before.
C8_NoCredentialGrace ==
  \A s \in SocketIds :
    (sockets[s].token.kind = "none" /\ Admitted(s)) =>
      /\ Notice("authentication_required", "MISSING_TOKEN", "PROVIDE_TOKEN") \in sockets[s].received
      /\ sockets[s].closedBy \in {"", "client", "grace_timer"}
      /\ sockets[s].closedBy = "grace_timer" => sockets[s].closedAt = sockets[s].connectedAt + 10000
      /\ (sockets[s].connected /\ ~sockets[s].authenticated) =>
            /\ now <= sockets[s].connectedAt + 10000
            /\ sockets[s].timerPending

\* C8 witness: a no-credential connection was closed when its grace period ended
C8_Witness ==
  \E s \in SocketIds :
    /\ sockets[s].token.kind = "none"
    /\ sockets[s].closedBy = "grace_timer"
    /\ ~sockets[s].authenticated

\* C9: a connection inside a grace period (it connected with no credential or
\* with an expired one) that authenticates by credential refresh receives the
\* refresh-success notice once the refresh completes, and the grace timer
\* never closes it, whenever the timer fires.
C9_RefreshBeatsTimer ==
  \A s \in SocketIds :
    (sockets[s].token.kind \in {"none", "expired"} /\ sockets[s].authenticated) =>
      /\ sockets[s].closedBy # "grace_timer"
      /\ (sockets[s].connected /\ ~\E c \in calls : c.socket = s) =>
            \E u \in Users : Notice("token_refreshed", u, "") \in sockets[s].received

\* C9 witness: the grace timer of a connection that authenticated by refresh
\* has fired and the connection is still open
C9_Witness ==
  \E s \in SocketIds :
    /\ sockets[s].token.kind \in {"none", "expired"}
    /\ sockets[s].authenticated /\ sockets[s].connected
    /\ ~sockets[s].timerPending /\ sockets[s].timerAt > 0 /\ now >= sockets[s].timerAt
    /\ \E u \in Users : Notice("token_refreshed", u, "") \in sockets[s].received

\* C10: a connection presenting an expired credential that the expired-token
\* admission check allows is not closed on the spot: it receives the
\* credential-expired notice (code TOKEN_EXPIRED, action REFRESH_TOKEN), stays
\* open for a 5 s re-authentication grace period and is closed by the timer at
\* the end of that period if it is still unauthenticated.
C10_ExpiredGrace ==
  \A s \in SocketIds :
    (sockets[s].token.kind = "expired" /\ Admitted(s)) =>
      /\ Notice("authentication_error", "TOKEN_EXPIRED", "REFRESH_TOKEN") \in sockets[s].received
      /\ sockets[s].closedBy \in {"", "client", "grace_timer"}
      /\ sockets[s].closedAt = sockets[s].connectedAt => sockets[s].closedBy = "client"
      /\ sockets[s].closedBy = "grace_timer" => sockets[s].closedAt = sockets[s].connectedAt + 5000
      /\ (sockets[s].connected /\ ~sockets[s].authenticated) =>
            /\ now <= sockets[s].connectedAt + 5000
            /\ sockets[s].timerPending

\* C10 witness: an expired-credential connection was closed when its
\* re-authentication period ended
C10_Witness ==
  \E s \in SocketIds :
    /\ sockets[s].token.kind = "expired"
    /\ sockets[s].closedBy = "grace_timer"
    /\ sockets[s].closedAt = sockets[s].connectedAt + 5000

\* C11: a connection whose connect-time credential fails verification for a
\* reason other than expiry (malformed, not yet valid) and that the general
\* admission check allows receives authentication_error with the re-login
\* action hint and is closed on the spot: it is never open at the end of a
\* step and no grace timer is armed for it.
C11_InvalidClosedAtOnce ==
  \A s \in SocketIds :
    (sockets[s].token.kind \in {"malformed", "premature"} /\ Admitted(s)) =>
      /\ \E code \in {"AUTH_ERROR", "INVALID_TOKEN"} :
           Notice("authentication_error", code, "RELOGIN") \in sockets[s].received
      /\ ~sockets[s].connected
      /\ sockets[s].closedBy = "invalid_token"
      /\ sockets[s].closedAt = sockets[s].connectedAt
      /\ ~sockets[s].timerPending /\ sockets[s].timerAt = 0

\* C11 witness: a malformed and a premature credential were both admitted by
\* the general check and turned away
C11_Witness ==
  \E s, r \in SocketIds :
    /\ sockets[s].token.kind = "malformed" /\ sockets[s].closedBy = "invalid_token"
    /\ sockets[r].token.kind = "premature" /\ sockets[r].closedBy = "invalid_token"

\* C12: a connection that arrives while its address has the ceiling number of
\* open connections (10, trusted-local 20) is rejected at accept: the only
\* thing it is sent is connection_limit_exceeded with code
\* CONNECTION_LIMIT_EXCEEDED, no credential is looked at, and no attempt-rate
\* counter of the address changes.  Conversely nothing is rejected for this
\* reason while fewer than the ceiling are registered for the address.
C12_CeilingAtAccept ==
  [][Len(sockets') = Len(sockets) + 1 =>
       LET n       == sockets'[Len(sockets')]
           open    == {r \in SocketIds : sockets[r].ip = n.ip /\ sockets[r].connected}
           ceiling == IF n.ip = LocalIP THEN 20 ELSE 10
       IN /\ Cardinality(open) >= ceiling =>
               /\ n.closedBy = "connection_limit"
               /\ ~n.connected /\ ~n.authenticated /\ n.userId = NoUser
               /\ n.received = {Notice("connection_limit_exceeded",
                                       "CONNECTION_LIMIT_EXCEEDED", "")}
               /\ connectionAttempts' = connectionAttempts
          /\ n.closedBy = "connection_limit" =>
               Cardinality(activeConnections[n.ip]) >= ceiling
  ]_vars

\* C12 witness: a connection was turned away from an address whose earlier
\* connections, a full ceiling of them, are all still open
C12_Witness ==
  \E s \in SocketIds :
    /\ sockets[s].closedBy = "connection_limit"
    /\ Cardinality({r \in 1..(s - 1) : sockets[r].ip = sockets[s].ip /\ sockets[r].connected})
         >= (IF sockets[s].ip = LocalIP THEN 20 ELSE 10)

\* the attempt counter of one admission path kept for an address (zero when
\* the address has no record)
PathCounter(m, ip, expiredPath) ==
  IF ~MapHas(m, ip) THEN 0
  ELSE IF expiredPath THEN m[ip].expiredTokenAttempts ELSE m[ip].count

\* C13 (as claimed): when a connection that passed admission is torn down, the
\* attempt counter of its address (the one of the path it was admitted on) is
\* lowered by exactly one if it was positive and stays at zero otherwise; and
\* every attempt counter is non-negative in every reachable state.
C13_TeardownReleasesOne ==
  [][/\ \A ip \in DOMAIN connectionAttempts :
          connectionAttempts[ip].count >= 0 /\ connectionAttempts[ip].expiredTokenAttempts >= 0
     /\ \A s \in SocketIds :
          (Admitted(s) /\ sockets[s].connected /\ ~sockets'[s].connected) =>
            LET before == PathCounter(connectionAttempts, sockets[s].ip, OnExpiredPath(s))
                after  == PathCounter(connectionAttempts', sockets[s].ip, OnExpiredPath(s))
            IN after = (IF before > 0 THEN before - 1 ELSE 0)
  ]_vars

\* C14 (as claimed): apart from the window reset, a step on one admission
\* path never changes the other path's counter: an attempt or a teardown on
\* the general path leaves the address's expired-credential counter as it was,
\* and an attempt or a teardown on the expired-credential path leaves the
\* general counter as it was.
C14_OtherPathUntouched ==
  [][/\ Len(sockets') = Len(sockets) + 1 =>
          LET n == sockets'[Len(sockets')]
          IN (n.closedBy # "connection_limit" /\ ~WindowRestarts(connectionAttempts, n.ip, now)) =>
               PathCounter(connectionAttempts', n.ip, n.token.kind # "expired")
                 = PathCounter(connectionAttempts, n.ip, n.token.kind # "expired")
     /\ \A s \in SocketIds :
          (Admitted(s) /\ sockets[s].connected /\ ~sockets'[s].connected) =>
            PathCounter(connectionAttempts', sockets[s].ip, ~OnExpiredPath(s))
              = PathCounter(connectionAttempts, sockets[s].ip, ~OnExpiredPath(s))
  ]_vars

\* C15 (as claimed): every connection that is Authenticated, whether it
\* became so at connect or by a refresh, is listed in the identity ->
\* connections registry under its subject id and in the connection -> identity
\* registry for as long as it is open (stated for connections whose
\* authenticating handler has run to its end).
C15_AuthenticatedIsRegistered ==
  \A s \in SocketIds :
    LET sock == sockets[s]
    IN (/\ sock.connected /\ sock.authenticated /\ sock.pc = "ready"
        /\ \A c \in calls : c.socket # s) =>
         /\ MapHas(userSockets, sock.userId) /\ s \in userSockets[sock.userId]
         /\ MapHas(socketUsers, s) /\ socketUsers[s].userId = sock.userId

\* C16 (as claimed): a credential presented by refresh is gated by the
\* Admission Controller exactly as a connect-time credential is: each refresh
\* the server handles either consumes the budget of its path (the general
\* counter, or the expired-credential counter for an expired credential, goes
\* up by one) or is denied, and a denied refresh is notified with a rate-limit
\* notice and closed.
C16_RefreshIsGated ==
  [][\A s \in SocketIds :
       LET expiredPath == Notice("authentication_error", "REFRESH_TOKEN_EXPIRED", "RELOGIN")
                            \in sockets'[s].received \ sockets[s].received
           generalPath == \/ \E c \in calls' \ calls : c.type = "refresh" /\ c.socket = s
                          \/ Notice("authentication_error", "REFRESH_FAILED", "RELOGIN")
                               \in sockets'[s].received \ sockets[s].received
           ip          == sockets[s].ip
       IN (expiredPath \/ generalPath) =>
            \/ PathCounter(connectionAttempts', ip, expiredPath)
                 = PathCounter(connectionAttempts, ip, expiredPath) + 1
            \/ /\ ~sockets'[s].connected
               /\ \E code \in {"RATE_LIMIT_EXCEEDED", "EXPIRED_TOKEN_RATE_LIMIT_EXCEEDED"} :
                    \E n \in sockets'[s].received : n[2] = code
  ]_vars

\* a step in which a domain-event handler runs to its end after its lookup
BroadcastSettles == \E c \in calls \ calls' : c.type = "broadcast"

\* C17: when a broadcast is not narrowed (the sender is privileged, or the
\* payload names no recipient, or the event is not a task creation or update)
\* and the project resolves to team T, every open connection that is in team
\* scope T at that moment gets exactly one copy, whether or not it has joined
\* the project's room.
C17_TeamScopeDelivery ==
  [][(BroadcastSettles /\ delivered'.team # NoTeam /\ ~delivered'.narrowed) =>
       \A r \in SocketIds :
         (sockets[r].connected /\ TeamRoom(delivered'.team) \in sockets[r].rooms) =>
           delivered'.copies[r] = 1
  ]_vars

\* C17 witness: an administrator who has joined the project's room raised an
\* event and a team member outside that room got its copy
C17_Witness ==
  /\ delivered.team = "t1" /\ ~delivered.narrowed /\ delivered.role = "admin"
  /\ \E r \in DOMAIN delivered.copies :
       /\ r # delivered.sender
       /\ delivered.copies[r] = 1
       /\ TeamRoom("t1") \in sockets[r].rooms
       /\ ProjectRoom([num |-> FALSE, txt |-> "123"]) \notin sockets[r].rooms
       /\ ProjectRoom([num |-> FALSE, txt |-> "123"]) \in sockets[delivered.sender].rooms

\* C18 (as claimed): under the narrowing rule (member sender, task created
\* or updated, payload names an assignee) with the project's team found, the
\* event reaches every open connection of the sender's identity, all of the
\* sender's devices and not only the connection that sent it, and every open
\* connection of the assignee, and no other connection.
C18_NarrowedToAllOwnDevices ==
  [][(BroadcastSettles /\ delivered'.narrowed /\ delivered'.team # NoTeam) =>
       \A r \in SocketIds :
         LET live == sockets[r].connected /\ sockets[r].authenticated /\ sockets[r].pc = "ready"
             mine == sockets[r].userId = sockets[delivered'.sender].userId
             his  == sockets[r].userId = delivered'.assignee
         IN /\ (live /\ (mine \/ his)) => delivered'.copies[r] > 0
            /\ delivered'.copies[r] > 0 => (mine \/ his)
  ]_vars

\* C19 (as claimed): whenever a team-scope broadcast is delivered (the
\* project's team is found, the event is not narrowed and some connection
\* gets it), the sending connection, if still open, gets the event too,
\* also when its own team lookup at authentication gave no team.
C19_SenderAcknowledged ==
  [][(/\ BroadcastSettles /\ delivered'.team # NoTeam /\ ~delivered'.narrowed
      /\ \E r \in SocketIds : delivered'.copies[r] > 0
      /\ sockets[delivered'.sender].connected) =>
       delivered'.copies[delivered'.sender] > 0
  ]_vars

\* C20 (as claimed): when the project -> team resolution of a broadcast fails,
\* whatever the reason, no connection receives the event, the sender is sent
\* nothing (no error notice) and stays open and authenticated.
C20_SilentSuppression ==
  [][(BroadcastSettles /\ delivered'.team = NoTeam) =>
       /\ \A r \in SocketIds : delivered'.copies[r] = 0
       /\ \A r \in SocketIds : sockets'[r].received = sockets[r].received
       /\ sockets'[delivered'.sender].connected = sockets[delivered'.sender].connected
       /\ sockets'[delivered'.sender].authenticated
  ]_vars

\* C21 (as claimed): a typing-indicator or cursor-position event reaches
\* only the other connections in the project room its sender is joined to at
\* that moment: every connection that gets one shares a joined project room,
\* the one the event names, with an open connection of the sending identity
\* other than itself.
C21_EphemeralStaysInJoinedRoom ==
  [][\A r \in SocketIds :
       \A n \in sockets'[r].received \ sockets[r].received :
         n[1] \in {"typing_indicator", "user_cursor"} =>
           \E s \in SocketIds \ {r} :
             /\ sockets[s].connected /\ sockets[s].userId = n[2]
             /\ <<"project", n[3]>> \in sockets[s].rooms
             /\ <<"project", n[3]>> \in sockets[r].rooms
  ]_vars

\* C22: a connection is joined to at most one project room in every state
\* that a step leads to, and no step taken while a connection's handshake is
\* complete and that leaves it open (a join or a leave by it or by another
\* connection) changes the team rooms it is in.
C22_OneProjectRoom ==
  [][\A s \in DOMAIN sockets' :
       /\ Cardinality({room \in sockets'[s].rooms : room[1] = "project"}) <= 1
       /\ (s \in SocketIds /\ sockets[s].pc = "ready" /\ sockets'[s].connected) =>
            {room \in sockets'[s].rooms : room[1] = "team"}
              = {room \in sockets[s].rooms : room[1] = "team"}
  ]_vars

\* C22 witness: a connection in team t1 joined project 7 and then project 123
\* and is now in the room of 123 only, still in its team room
C22_Witness ==
  \E s \in SocketIds :
    /\ Notice("room_members", "7", "") \in sockets[s].received
    /\ Notice("room_members", "123", "") \in sockets[s].received
    /\ sockets[s].rooms = {TeamRoom("t1"), <<"project", "123">>}

\* C23 (as claimed): every router operation attempted by a connection that
\* is not Authenticated is dropped with an authorization error sent to the
\* caller: the caller has the AUTH_REQUIRED notice after the step, no registry
\* changes, no other connection is sent anything, nothing is delivered and the
\* caller stays open.
C23_UnauthorizedIsAnswered ==
  [][\A s \in SocketIds :
       sockets'[s].refused # sockets[s].refused =>
         /\ Notice("error", "AUTH_REQUIRED", "") \in sockets'[s].received
         /\ sockets'[s].connected
         /\ \A r \in SocketIds \ {s} : sockets'[r] = sockets[r]
         /\ UNCHANGED <<activeRooms, userSockets, socketUsers, activeConnections,
                        connectionAttempts, calls, delivered>>
  ]_vars

C25_HandledWhileOutstanding ==
  [][\A s \in SocketIds :
       (/\ sockets[s].connected /\ ~sockets'[s].connected
        /\ sockets[s].pc = "fetch" \/ \E c \in calls : c.socket = s) =>
         /\ s \notin activeConnections'[sockets[s].ip]
         /\ ~MapHas(socketUsers', s)
         /\ \A u \in DOMAIN userSockets' : s \notin userSockets'[u]
  ]_vars

\* C26 (as claimed): a reconnect attempt with an expired credential that
\* comes at least the expired-credential cooldown (1 s trusted-local, 2 s
\* otherwise) after every earlier expired-credential attempt of its address,
\* with fewer such attempts in the last minute than the expired-credential
\* ceiling (50 trusted-local, 10 otherwise) and below the concurrent-connection
\* ceiling, is answered with authentication_error TOKEN_EXPIRED and is not
\* rate-limited, whatever general attempts the address made before.
C26_ExpiredReconnectsPass ==
  \A s \in SocketIds :
    LET sock     == sockets[s]
        local    == sock.ip = LocalIP
        earlier  == {r \in 1..(s - 1) : sockets[r].ip = sock.ip /\ OnExpiredPath(r)}
        cooldown == IF local THEN 1000 ELSE 2000
        ceiling  == IF local THEN 50 ELSE 10
    IN (/\ OnExpiredPath(s) /\ sock.closedBy # "connection_limit"
        /\ \A r \in earlier : sock.connectedAt - sockets[r].connectedAt >= cooldown
        /\ Cardinality({r \in earlier : sock.connectedAt - sockets[r].connectedAt <= 60000})
             < ceiling) =>
         /\ sock.closedBy # "rate_limit"
         /\ \A n \in sock.received : n[1] # "rate_limit_exceeded"
         /\ Notice("authentication_error", "TOKEN_EXPIRED", "REFRESH_TOKEN") \in sock.received

\* C27 (as claimed): a connection with a valid credential opened from the
\* trusted-local address at the same moment as an earlier one (back to back),
\* while fewer than 20 connections have been opened from that address, is
\* admitted and authenticated, not rate-limited.
C27_LocalBurstAdmitted ==
  \A s \in SocketIds :
    LET sock    == sockets[s]
        earlier == {r \in 1..(s - 1) : sockets[r].ip = LocalIP}
    IN (/\ sock.ip = LocalIP /\ sock.token.kind = "valid"
        /\ Cardinality(earlier) < 20
        /\ \E r \in earlier : /\ sockets[r].token.kind = "valid"
                              /\ sockets[r].connectedAt = sock.connectedAt) =>
         /\ sock.closedBy # "rate_limit"
         /\ sock.authenticated

\* C28: the trusted-local limits are at least as permissive as the others on
\* every check.  When the AdmissionRecords of the trusted-local address and of
\* another address have the same contents, a general or an expired-credential
\* attempt that checkConnectionRateLimit accepts for the other address at this
\* time it accepts for the trusted-local address as well; a number of open
\* connections below the other address's ceiling is below the trusted-local
\* one; and of two first attempts of the same kind made at the same time from
\* records of the same contents, the trusted-local one is admitted if the
\* other one is.
C28_LocalAtLeastAsPermissive ==
  LET m    == connectionAttempts
      same == /\ MapHas(m, LocalIP) /\ MapHas(m, RemoteIP)
              /\ m[LocalIP].count = m[RemoteIP].count
              /\ m[LocalIP].lastAttempt = m[RemoteIP].lastAttempt
              /\ m[LocalIP].expiredTokenAttempts = m[RemoteIP].expiredTokenAttempts
  IN /\ same => \A e \in BOOLEAN :
                  checkConnectionRateLimit(m, RemoteIP, e, now).ok
                    => checkConnectionRateLimit(m, LocalIP, e, now).ok
     /\ \A n \in 0..MAX_CONNECTIONS_LOCALHOST :
          n < CeilingOf(RemoteIP) => n < CeilingOf(LocalIP)
     /\ \A s, r \in SocketIds :
          (/\ sockets[s].ip = RemoteIP /\ sockets[r].ip = LocalIP
           /\ sockets[s].token = sockets[r].token
           /\ sockets[s].connectedAt = sockets[r].connectedAt
           /\ Admitted(s)) => Admitted(r)

\* C28 witness: from records of the same contents an expired-credential
\* attempt was admitted for both addresses
C28_Witness ==
  \E s, r \in SocketIds :
    /\ sockets[s].ip = RemoteIP /\ sockets[r].ip = LocalIP
    /\ OnExpiredPath(s) /\ OnExpiredPath(r)
    /\ Admitted(s) /\ Admitted(r)
    /\ connectionAttempts[RemoteIP].count = connectionAttempts[LocalIP].count
    /\ connectionAttempts[RemoteIP].count > 0

\* C29 (as claimed): a malformed credential presented at connect that passes
\* admission is answered with authentication_error carrying code INVALID_TOKEN
\* and action RELOGIN, and not with the notice an expired credential gets.
C29_MalformedIsInvalidToken ==
  \A s \in SocketIds :
    (sockets[s].token.kind = "malformed" /\ Admitted(s)) =>
      /\ Notice("authentication_error", "INVALID_TOKEN", "RELOGIN") \in sockets[s].received
      /\ Notice("authentication_error", "TOKEN_EXPIRED", "REFRESH_TOKEN")
           \notin sockets[s].received

\* C30 (as claimed): in every reachable state the set of connections the
\* concurrent-connection ceiling is checked against holds, for each address,
\* exactly the ids of the connections from that address that are open now.
C30_OpenSetIsExact ==
  \A ip \in IPs :
    activeConnections[ip] = {s \in SocketIds : sockets[s].ip = ip /\ sockets[s].connected}

\* C31 (as claimed): no address is locked out forever.  Whenever a connection
\* presenting a valid credential arrives from an address all of whose earlier
\* connections have closed and whose latest attempt is more than the window
\* old, it is admitted and authenticated.
C31_NoPermanentLockout ==
  [][Len(sockets') = Len(sockets) + 1 =>
       LET n    == sockets'[Len(sockets')]
           mine == {r \in SocketIds : sockets[r].ip = n.ip}
       IN (/\ n.token.kind = "valid"
           /\ \A r \in mine : ~sockets[r].connected
           /\ \A r \in mine : now - sockets[r].connectedAt > CONNECTION_WINDOW) =>
            /\ n.connected /\ n.authenticated
            /\ n.closedBy = ""
  ]_vars

\* C32 (as claimed): an identity with at least one open Authenticated
\* connection joined to a project room is listed in that room's member set,
\* also after another connection of the same identity has left the room,
\* switched room or disconnected.
C32_PresentIsListed ==
  \A s \in SocketIds :
    LET sock == sockets[s]
    IN (sock.connected /\ sock.authenticated /\ sock.pc = "ready") =>
         \A room \in ProjectRoomsOf(sock) :
           \E p \in DOMAIN activeRooms :
             ProjectRoom(p) = room /\ sock.userId \in activeRooms[p]

\* C33 (as claimed): once an authentication or a refresh of a connection has
\* completed, the team rooms the connection is in are exactly the rooms of the
\* teams that authentication or refresh resolved for its identity; no scope of
\* an earlier identity or an earlier resolution is retained.
C33_ScopesAreCurrent ==
  \A s \in SocketIds :
    LET sock == sockets[s]
    IN (/\ sock.connected /\ sock.authenticated /\ sock.pc = "ready"
        /\ \A c \in calls : c.socket # s) =>
         {room \in sock.rooms : room[1] = "team"} = {TeamRoom(t) : t \in sock.resolved}

\* C34 (as claimed): a domain event for a project that resolves to team T is
\* never delivered to a connection outside team scope T other than the
\* sender's own; under the narrowing rule too, a connection of the named
\* recipient gets the event only if it is in the room of team T.
C34_NoDeliveryOutsideScope ==
  [][(BroadcastSettles /\ delivered'.team # NoTeam) =>
       \A r \in SocketIds :
         (delivered'.copies[r] > 0 /\ r # delivered'.sender) =>
           TeamRoom(delivered'.team) \in sockets[r].rooms
  ]_vars

\* C35 (as claimed): a denied admission attempt consumes no budget.  When an
\* attempt on either path is denied, neither counter nor the last-attempt time
\* of the address's AdmissionRecord changes; and after every step the
\* expired-credential counter of every address is at most its ceiling (10,
\* trusted-local 50) and the general counter at most its ceiling.
C35_DenialConsumesNothing ==
  [][/\ Len(sockets') = Len(sockets) + 1 =>
          LET n == sockets'[Len(sockets')]
          IN n.closedBy \in {"rate_limit", "connection_limit"} =>
               \A expiredPath \in BOOLEAN :
                 /\ PathCounter(connectionAttempts', n.ip, expiredPath)
                      = PathCounter(connectionAttempts, n.ip, expiredPath)
                 /\ MapHas(connectionAttempts', n.ip) = MapHas(connectionAttempts, n.ip)
                 /\ MapHas(connectionAttempts, n.ip) =>
                      connectionAttempts'[n.ip].lastAttempt = connectionAttempts[n.ip].lastAttempt
     /\ \A ip \in DOMAIN connectionAttempts' :
          /\ connectionAttempts'[ip].expiredTokenAttempts
               <= (IF ip = LocalIP THEN MAX_EXPIRED_ATTEMPTS_LOCALHOST ELSE MAX_EXPIRED_ATTEMPTS)
          /\ connectionAttempts'[ip].count <= CeilingOf(ip)
  ]_vars

\* C36: a refresh that fails (no credential, or a malformed, premature or
\* expired one) on an Authenticated connection leaves the connection as it
\* was: Authenticated with the same identity and role, in the same project and
\* team rooms, open, with the same registry entries; it is sent an
\* authentication_error notice and nothing else happens.  And no step ever
\* takes a connection from Authenticated to unauthenticated.
C36_FailedRefreshChangesNothing ==
  [][\A s \in SocketIds :
       /\ \A tok \in FailingTokens :
            (sockets[s].authenticated /\ Refresh(s, tok)) =>
              /\ sockets'[s].authenticated /\ sockets'[s].connected
              /\ sockets'[s].closedBy = ""
              /\ sockets'[s].userId = sockets[s].userId
              /\ sockets'[s].userRole = sockets[s].userRole
              /\ sockets'[s].rooms = sockets[s].rooms
              /\ sockets'[s].resolved = sockets[s].resolved
              /\ \A n \in sockets'[s].received \ sockets[s].received :
                   n[1] = "authentication_error"
              /\ UNCHANGED <<activeRooms, userSockets, socketUsers, calls,
                             connectionAttempts, activeConnections>>
       /\ sockets[s].authenticated => sockets'[s].authenticated
  ]_vars

\* C36 witness: a connection that is in its team room and in a project room
\* has been refused a refresh without credential, one with a malformed and one
\* with an expired credential, and is still open and Authenticated as u1 in
\* both rooms
C36_Witness ==
  \E s \in SocketIds :
    /\ sockets[s].token.kind = "valid"
    /\ sockets[s].connected /\ sockets[s].authenticated /\ sockets[s].userId = "u1"
    /\ sockets[s].rooms = {TeamRoom("t1"), <<"project", "123">>}
    /\ Notice("authentication_error", "MISSING_TOKEN", "") \in sockets[s].received
    /\ Notice("authentication_error", "REFRESH_FAILED", "RELOGIN") \in sockets[s].received
    /\ Notice("authentication_error", "REFRESH_TOKEN_EXPIRED", "RELOGIN") \in sockets[s].received

\* C37 (as claimed): one broadcast delivers at most one copy of the event to
\* any connection, also when a member-role sender names itself as the
\* assignee of the task.
C37_AtMostOneCopy ==
  \A r \in DOMAIN delivered.copies : delivered.copies[r] <= 1

\* C38 (as claimed): whenever a step removes an identity from a project
\* room's member set (a leave, a disconnect, or a join that switches the
\* connection to another room), every connection that remains open in that
\* room has been sent user_left for that identity and project.
C38_RemovalIsAnnounced ==
  [][\A p \in DOMAIN activeRooms :
       \A u \in activeRooms[p] :
         (~MapHas(activeRooms', p) \/ u \notin activeRooms'[p]) =>
           \A r \in SocketIds :
             (sockets'[r].connected /\ ProjectRoom(p) \in sockets'[r].rooms) =>
               Notice("user_left", u, p.txt) \in sockets'[r].received
  ]_vars

\* C39 (as claimed): the room -> members registry never holds a project room
\* with an empty member set: once a leave, a room switch or a disconnect has
\* removed a room's last member, the room is absent from the registry.
C39_NoEmptyRoom ==
  \A p \in DOMAIN activeRooms : activeRooms[p] # {}

\* how long after a reclaim the next attempt of the address is looked at
LaterDelays == {0, 1, 499} \cup Steps

\* C40: the reclaimer removes an AdmissionRecord only when its last stamped
\* attempt is more than twice the window (120 s) old, and the removal cannot
\* be told from the admission decisions: whatever teardowns have lowered the
\* record's counters in the meantime, the next attempt of the address on
\* either path, whenever it comes, gets the same verdict and leaves the same
\* record with the record removed as with the record kept, so that every
\* later decision is the same too.
C40_ReclaimIsUnobservable ==
  [][\A ip \in DOMAIN connectionAttempts \ DOMAIN connectionAttempts' :
       LET r == connectionAttempts[ip]
       IN /\ now - r.lastAttempt > 2 * 60000
          /\ \A c \in 0..r.count, x \in 0..r.expiredTokenAttempts,
                d \in LaterDelays, e \in BOOLEAN :
               LET kept == checkConnectionRateLimit(
                             MapSet(connectionAttempts, ip,
                                    [r EXCEPT !.count = c, !.expiredTokenAttempts = x]),
                             ip, e, now + d)
                   gone == checkConnectionRateLimit(connectionAttempts', ip, e, now + d)
               IN /\ kept.ok = gone.ok
                  /\ MapHas(kept.map, ip) /\ MapHas(gone.map, ip)
                  /\ kept.map[ip] = gone.map[ip]
  ]_vars

\* C40 witness: the record of an address that had an attempt admitted on each
\* path has been reclaimed while a connection of the address is still open
C40_Witness ==
  \E s, r \in SocketIds :
    /\ sockets[s].ip = sockets[r].ip
    /\ Admitted(s) /\ ~OnExpiredPath(s)
    /\ Admitted(r) /\ OnExpiredPath(r)
    /\ sockets[s].connected
    /\ ~MapHas(connectionAttempts, sockets[s].ip)

====
